---- MODULE Spec2Model ----
(***************************************************************************)
(* NBL team ratings: the rating engine (src/utils/utils/ratings.py), the   *)
(* result supplier (src/utils/scraper.py) and the dashboard session that   *)
(* drives them (src/app.py).                                               *)
(*                                                                         *)
(* Numbers.  Ratings, margins and deltas are Python floats.  They are      *)
(* modelled in fixed point: a rating r is the integer 1000*r, kFactor is   *)
(* held in hundredths (0.05 is 5) and homeAdvantage in tenths (2.2 is 22), *)
(* the grids of the two sliders of the dashboard.  Sums and differences    *)
(* are exact; the one product, k * surprise, is rounded to the nearest     *)
(* thousandth, ties to even, as a float product is rounded to the nearest  *)
(* representable value.                                                    *)
(*                                                                         *)
(* Objects.  A Python dict is a sequence of entries in insertion order.    *)
(* Dict objects live in a heap and an engine holds a reference to its      *)
(* rating dict, because the constructor keeps the caller's mapping itself  *)
(* when that mapping is non-empty.                                         *)
(***************************************************************************)
EXTENDS Integers, Sequences, FiniteSets, TLC

VARIABLES
    heap,             \* dict objects: reference -> sequence of [team, rating]
    ratings_system,   \* engine -> the RatingSystem object's attributes
    history,          \* engine -> what was passed in: constructor arguments, calls made
    clock,            \* datetime.now(), as a counter
    ret,              \* the value the latest operation returned
    caller_value,     \* the entries the caller itself has put in its mapping
    session_history,  \* st.session_state.game_history
    csv,              \* data/game_history.csv: whether it exists, and its rows
    last_scrape,      \* st.session_state.last_scrape
    fetch             \* outcome of the latest requests.get of the scraper

vars == <<heap, ratings_system, history, clock, ret, caller_value,
          session_history, csv, last_scrape, fetch>>

appVars == <<session_history, csv, last_scrape, fetch>>

---------------------------------------------------------------------------
(* Bounds and input sets *)

MaxGames == 2

MaxReadGames == 2

Scale == 10 * 10 * 10

Eng == {1, 2}

Teams == {"A", "B", "C"}

PlayTeams == {"A", "B"}

ScoreLines == {<<90, 85>>, <<80, 100>>}

ReadScoreLines == {<<90, 85>>}

PredictTeams == {"A", "B"}

KValues == {5, 20}

HomeAdvValues == {22, 0}

DefaultK == 5

DefaultHomeAdv == 22

InitialRatingsChoices ==
    { <<>>,
      << [team |-> "A", rating |-> 1500], [team |-> "C", rating |-> -500] >> }

NoMapping == [t \in {} |-> ""]

TeamMappingData == [t \in {"A", "B"} |-> IF t = "A" THEN "Alpha" ELSE "Bravo"]

CallerRef == "M"

OwnRef(e) == IF e = 1 THEN "own1" ELSE "own2"

Refs == {CallerRef, OwnRef(1), OwnRef(2)}

---------------------------------------------------------------------------
(* dict *)

Has(d, t) == \E i \in DOMAIN d : d[i].team = t

DictGet(d, t, default) ==
    IF Has(d, t) THEN d[CHOOSE i \in DOMAIN d : d[i].team = t].rating ELSE default

\* an assignment that updates the ids the dict holds and drops the others
DictSet_ExistingOnly(d, t, v) ==
    [i \in DOMAIN d |-> IF d[i].team = t THEN [team |-> t, rating |-> v] ELSE d[i]]

DictSet(d, t, v) ==
    IF Has(d, t)
    THEN [i \in DOMAIN d |-> IF d[i].team = t THEN [team |-> t, rating |-> v] ELSE d[i]]
    ELSE Append(d, [team |-> t, rating |-> v])

\* what the latest call returned, which call it was and with which arguments
Called(op, args, value) == [op |-> op, args |-> args, value |-> value]

Returned(op, value) == Called(op, <<>>, value)

MapGet(m, t, default) == IF t \in DOMAIN m THEN m[t] ELSE default

---------------------------------------------------------------------------
(* float arithmetic *)

RoundDiv(n, d) ==
    LET q == n \div d
        r == n % d
    IN  IF 2 * r < d THEN q
        ELSE IF 2 * r > d THEN q + 1
        ELSE IF q % 2 = 0 THEN q ELSE q + 1

---------------------------------------------------------------------------
(* RatingSystem *)

NoEngine ==
    [ratings |-> "null", team_mapping |-> NoMapping, k |-> 0, home_adv |-> 0,
     game_history |-> <<>>]

\* initial_ratings: the entries of the mapping the constructor received;
\* given: the entries the caller had put in that mapping; calls: play_game calls
\* made; params_used: (k, home_adv) at each of them
NoHistory == [initial_ratings |-> <<>>, given |-> <<>>, calls |-> 0, params_used |-> <<>>]

Passed(initial, given) == [NoHistory EXCEPT !.initial_ratings = initial, !.given = given]

Constructed(e) == ratings_system[e].ratings # "null"

RatingsOf(e) == heap[ratings_system[e].ratings]

\* initial_ratings or {}
RatingsRef(e, initial_ref) ==
    IF heap[initial_ref] # <<>> THEN initial_ref ELSE OwnRef(e)

NewRatingSystem(e, initial_ref, tm, kv, ha) ==
    [ratings |-> RatingsRef(e, initial_ref), team_mapping |-> tm, k |-> kv,
     home_adv |-> ha, game_history |-> <<>>]

\* the home advantage written into the formula instead of read from the engine
ExpectedMov_Hardcoded(ha, home_rating, away_rating) ==
    home_rating + DefaultHomeAdv * 100 - away_rating

\* the expected margin taken from the ratings alone
ExpectedMov_NoHomeAdv(ha, home_rating, away_rating) == home_rating - away_rating

ExpectedMov(ha, home_rating, away_rating) == home_rating + ha * 100 - away_rating

\* the surprise taken with the wrong sign
DeltaRating_SignSlip(kv, actual_mov, exp_mov) ==
    RoundDiv(kv * (exp_mov - actual_mov * Scale), 100)

DeltaRating(kv, actual_mov, exp_mov) == RoundDiv(kv * (actual_mov * Scale - exp_mov), 100)

\* the rating dict rebuilt from the two sides instead of updated in place
UpdateRatings_Rebuild(d, kv, ha, home, away, home_score, away_score) ==
    LET home_rating == DictGet(d, home, 0)
        away_rating == DictGet(d, away, 0)
        dr == RoundDiv(kv * ((home_score - away_score) * Scale
                              - (home_rating + ha * 100 - away_rating)), 100)
    IN  DictSet(DictSet(<<>>, home, home_rating + dr), away, away_rating - dr)

UpdateRatings(d, kv, ha, home, away, home_score, away_score) ==
    LET home_rating == DictGet(d, home, 0)
        away_rating == DictGet(d, away, 0)
        dr == DeltaRating(kv, home_score - away_score,
                          ExpectedMov(ha, home_rating, away_rating))
    IN  DictSet(DictSet(d, home, home_rating + dr), away, away_rating - dr)

\* the two scores stored under each other's key
GameResult_SwappedScores(d, tm, kv, ha, now, home, away, home_score, away_score) ==
    LET home_rating == DictGet(d, home, 0)
        away_rating == DictGet(d, away, 0)
        exp_mov == home_rating + ha * 100 - away_rating
        dr == RoundDiv(kv * ((home_score - away_score) * Scale - exp_mov), 100)
    IN  [timestamp |-> now,
         home |-> home,
         away |-> away,
         home_score |-> away_score,
         away_score |-> home_score,
         home_rating_before |-> home_rating,
         away_rating_before |-> away_rating,
         home_rating_after |-> IF home = away THEN away_rating - dr ELSE home_rating + dr,
         away_rating_after |-> away_rating - dr,
         expected_mov |-> exp_mov,
         actual_mov |-> home_score - away_score,
         delta_rating |-> dr,
         home_team_full |-> MapGet(tm, home, home),
         away_team_full |-> MapGet(tm, away, away)]

GameResult(d, tm, kv, ha, now, home, away, home_score, away_score) ==
    LET home_rating == DictGet(d, home, 0)
        away_rating == DictGet(d, away, 0)
        exp_mov == ExpectedMov(ha, home_rating, away_rating)
        after == UpdateRatings(d, kv, ha, home, away, home_score, away_score)
    IN  [timestamp |-> now,
         home |-> home,
         away |-> away,
         home_score |-> home_score,
         away_score |-> away_score,
         home_rating_before |-> home_rating,
         away_rating_before |-> away_rating,
         home_rating_after |-> DictGet(after, home, 0),
         away_rating_after |-> DictGet(after, away, 0),
         expected_mov |-> exp_mov,
         actual_mov |-> home_score - away_score,
         delta_rating |-> DeltaRating(kv, home_score - away_score, exp_mov),
         home_team_full |-> MapGet(tm, home, home),
         away_team_full |-> MapGet(tm, away, away)]

\* the record inserted at the head of the log instead of appended
PlayGameOn_Prepend(e, home, away, home_score, away_score) ==
    LET rs == ratings_system[e]
        d == heap[rs.ratings]
        result == GameResult(d, rs.team_mapping, rs.k, rs.home_adv, clock,
                             home, away, home_score, away_score)
    IN  /\ heap' = [heap EXCEPT ![rs.ratings] =
                        UpdateRatings(d, rs.k, rs.home_adv, home, away,
                                      home_score, away_score)]
        /\ ratings_system' =
               [ratings_system EXCEPT ![e].game_history = <<result>> \o @]
        /\ history' = [history EXCEPT
                           ![e].calls = @ + 1,
                           ![e].params_used =
                               Append(@, [k |-> rs.k, home_adv |-> rs.home_adv])]
        /\ clock' = clock + 1
        /\ ret' = Returned("play_game", result)

\* the engine's part of play_game: the rating dict, the log, the clock
PlayGameOn(e, home, away, home_score, away_score) ==
    LET rs == ratings_system[e]
        d == heap[rs.ratings]
        result == GameResult(d, rs.team_mapping, rs.k, rs.home_adv, clock,
                             home, away, home_score, away_score)
    IN  /\ heap' = [heap EXCEPT ![rs.ratings] =
                        UpdateRatings(d, rs.k, rs.home_adv, home, away,
                                      home_score, away_score)]
        /\ ratings_system' =
               [ratings_system EXCEPT ![e].game_history = Append(@, result)]
        /\ history' = [history EXCEPT
                           ![e].calls = @ + 1,
                           ![e].params_used =
                               Append(@, [k |-> rs.k, home_adv |-> rs.home_adv])]
        /\ clock' = clock + 1
        /\ ret' = Returned("play_game", result)

PlayGame(e, home, away, home_score, away_score) ==
    /\ Constructed(e)
    /\ Len(ratings_system[e].game_history) < MaxGames
    /\ PlayGameOn(e, home, away, home_score, away_score)
    /\ UNCHANGED <<caller_value, appVars>>

SetK(e, k_value) ==
    /\ Constructed(e)
    /\ ratings_system' = [ratings_system EXCEPT ![e].k = k_value]
    /\ ret' = Returned("setattr", "None")
    /\ UNCHANGED <<heap, history, clock, caller_value, appVars>>

SetHomeAdv(e, home_adv) ==
    /\ Constructed(e)
    /\ ratings_system' = [ratings_system EXCEPT ![e].home_adv = home_adv]
    /\ ret' = Returned("setattr", "None")
    /\ UNCHANGED <<heap, history, clock, caller_value, appVars>>

---------------------------------------------------------------------------
(* RatingSystem: the read API *)

\* the insertion of a sort without reverse=True
InsertDesc_Ascending(s, x) ==
    LET n == Cardinality({i \in DOMAIN s : s[i][2] <= x[2]})
    IN  SubSeq(s, 1, n) \o <<x>> \o SubSeq(s, n + 1, Len(s))

\* sorted(..., key=rating, reverse=True): stable, so equal ratings keep dict order
InsertDesc(s, x) ==
    LET n == Cardinality({i \in DOMAIN s : s[i][2] >= x[2]})
    IN  SubSeq(s, 1, n) \o <<x>> \o SubSeq(s, n + 1, Len(s))

RECURSIVE SortDesc(_)
SortDesc(s) ==
    IF s = <<>> THEN <<>>
    ELSE InsertDesc(SortDesc(SubSeq(s, 1, Len(s) - 1)), s[Len(s)])

Standings(d, tm) ==
    SortDesc([i \in DOMAIN d |-> <<MapGet(tm, d[i].team, d[i].team), d[i].rating>>])

\* 1 / (1 + exp(-mov / 10)), approximated by the rational sigmoid
\* 1/2 + (1/2) * y / (1 + |y|) with y = mov / 20: monotone, 1/2 at 0, inside (0, 1)
MovToProbability(mov) ==
    500 + (500 * mov) \div (20 * Scale + (IF mov < 0 THEN -mov ELSE mov))

\* the prediction made from the two ratings alone
Prediction_NoHomeAdv(d, ha, home, away) ==
    LET home_rating == DictGet(d, home, 0)
        away_rating == DictGet(d, away, 0)
        expected == home_rating - away_rating
    IN  [home |-> home, away |-> away,
         home_rating |-> home_rating, away_rating |-> away_rating,
         expected_mov |-> expected,
         home_win_probability |-> MovToProbability(expected)]

Prediction(d, ha, home, away) ==
    LET home_rating == DictGet(d, home, 0)
        away_rating == DictGet(d, away, 0)
        expected == ExpectedMov(ha, home_rating, away_rating)
    IN  [home |-> home, away |-> away,
         home_rating |-> home_rating, away_rating |-> away_rating,
         expected_mov |-> expected,
         home_win_probability |-> MovToProbability(expected)]

Read(op, args, value) ==
    /\ ret' = Called(op, args, value)
    /\ UNCHANGED <<heap, ratings_system, history, clock, caller_value, appVars>>

GetStandings(e) ==
    /\ Constructed(e)
    /\ Read("get_standings", <<>>, Standings(RatingsOf(e), ratings_system[e].team_mapping))

\* the lookup done with setdefault, which leaves the default behind as an entry
GetTeamRating_SetDefault(e, team) ==
    /\ Constructed(e)
    /\ ret' = Called("get_team_rating", <<team>>, DictGet(RatingsOf(e), team, 0))
    /\ heap' = [heap EXCEPT ![ratings_system[e].ratings] =
                    IF Has(@, team) THEN @ ELSE DictSet(@, team, 0)]
    /\ UNCHANGED <<ratings_system, history, clock, caller_value, appVars>>

GetTeamRating(e, team) ==
    /\ Constructed(e)
    /\ Read("get_team_rating", <<team>>, DictGet(RatingsOf(e), team, 0))

PredictGame(e, home, away) ==
    /\ Constructed(e)
    /\ Read("predict_game", <<home, away>>,
            Prediction(RatingsOf(e), ratings_system[e].home_adv, home, away))

---------------------------------------------------------------------------
(* One engine, owned by a caller that builds it and then only calls it *)

NoFile == [exists |-> FALSE, rows |-> <<>>]

\* the variables the dashboard session adds, outside a session
NoSession ==
    /\ session_history = <<>>
    /\ csv = NoFile
    /\ last_scrape = "None"
    /\ fetch = "none"

Init ==
    /\ \E m \in InitialRatingsChoices :
          /\ heap = [r \in Refs |-> IF r = CallerRef THEN m ELSE <<>>]
          /\ caller_value = m
          /\ history = [e \in Eng |-> IF e = 1 THEN Passed(m, m) ELSE NoHistory]
    /\ ratings_system =
           [e \in Eng |->
               IF e = 1
               THEN NewRatingSystem(1, CallerRef, TeamMappingData,
                                    DefaultK, DefaultHomeAdv)
               ELSE NoEngine]
    /\ clock = 0
    /\ ret = Returned("__init__", "None")
    /\ NoSession

Next ==
    \/ \E home \in PlayTeams, away \in PlayTeams, s \in ScoreLines :
          PlayGame(1, home, away, s[1], s[2])
    \/ \E k_value \in KValues : SetK(1, k_value)
    \/ \E home_adv \in HomeAdvValues : SetHomeAdv(1, home_adv)

Spec == Init /\ [][Next]_vars

---------------------------------------------------------------------------
(* The same engine, written and read *)

ReadsPlayGame(home, away, home_score, away_score) ==
    /\ Len(ratings_system[1].game_history) < MaxReadGames
    /\ PlayGameOn(1, home, away, home_score, away_score)
    /\ UNCHANGED <<caller_value, appVars>>

NextReads ==
    \/ \E home \in PlayTeams, away \in PlayTeams, s \in ReadScoreLines :
          ReadsPlayGame(home, away, s[1], s[2])
    \/ \E k_value \in KValues : SetK(1, k_value)
    \/ \E home_adv \in HomeAdvValues : SetHomeAdv(1, home_adv)
    \/ GetStandings(1)
    \/ \E team \in Teams : GetTeamRating(1, team)
    \/ \E home \in PredictTeams, away \in PredictTeams : PredictGame(1, home, away)

SpecReads == Init /\ [][NextReads]_vars

---------------------------------------------------------------------------
(* A caller that keeps its initial_ratings mapping and builds two engines from it *)

MaxLibGames == 2

CallerWrites == {<<"A", 2000>>}

InitLib ==
    /\ \E m \in InitialRatingsChoices :
          /\ heap = [r \in Refs |-> IF r = CallerRef THEN m ELSE <<>>]
          /\ caller_value = m
    /\ history = [e \in Eng |-> NoHistory]
    /\ ratings_system = [e \in Eng |-> NoEngine]
    /\ clock = 0
    /\ ret = Returned("none", "None")
    /\ NoSession

\* RatingSystem(initial_ratings, team_mapping, k, home_adv) on the caller's mapping
Construct(e, kv, ha) ==
    /\ ~Constructed(e)
    /\ ratings_system' =
           [ratings_system EXCEPT
               ![e] = NewRatingSystem(e, CallerRef, TeamMappingData, kv, ha)]
    /\ history' = [history EXCEPT ![e] = Passed(heap[CallerRef], caller_value)]
    /\ ret' = Returned("__init__", "None")
    /\ UNCHANGED <<heap, clock, caller_value, appVars>>

LibPlayGame(e, home, away, home_score, away_score) ==
    /\ Constructed(e)
    /\ Len(ratings_system[e].game_history) < MaxLibGames
    /\ PlayGameOn(e, home, away, home_score, away_score)
    /\ UNCHANGED <<caller_value, appVars>>

\* the caller's own initial_ratings[team] = value
CallerWrite(team, value) ==
    /\ heap' = [heap EXCEPT ![CallerRef] = DictSet(@, team, value)]
    /\ caller_value' = DictSet(caller_value, team, value)
    /\ ret' = Returned("setitem", "None")
    /\ UNCHANGED <<ratings_system, history, clock, appVars>>

NextLib ==
    \/ \E e \in Eng, kv \in KValues : Construct(e, kv, DefaultHomeAdv)
    \/ \E e \in Eng, home \in PlayTeams, s \in ReadScoreLines :
          \E away \in PlayTeams \ {home} : LibPlayGame(e, home, away, s[1], s[2])
    \/ \E w \in CallerWrites : CallerWrite(w[1], w[2])

SpecLib == InitLib /\ [][NextLib]_vars

---------------------------------------------------------------------------
(* The dashboard session: src/app.py *)

\* play_game calls in one session, Reset or not
MaxAppGames == 2

AppInitialRatings ==
    << [team |-> "36", rating |-> 1000], [team |-> "syd", rating |-> -1000] >>

AppTeamMapping ==
    [t \in {"36", "syd"} |-> IF t = "36" THEN "Adelaide 36ers" ELSE "Sydney Kings"]

AppScoreLines == {<<90, 85>>}

Game(home, away, home_score, away_score) ==
    [home |-> home, away |-> away, home_score |-> home_score, away_score |-> away_score]

\* _get_fallback_data: the sample game returned when the request fails
FallbackData == << Game("36", "syd", 85, 79) >>

\* what _parse_html / _parse_fallback can make of a page that was fetched
Batches ==
    { <<>>,
      << Game("syd", "36", 80, 100) >>,
      << Game("syd", "36", 80, 100), Game("syd", "36", 80, 100) >>,
      << Game("36", "syd", 85, 79) >> }

\* pandas reads a column of numerals as numbers: "36" comes back as the number 36
\* (written "#36"), as 36.0 ("#36.0") beside an empty cell, an empty cell as NaN
Numerals == {"36"}

CellText(v) ==
    IF v \in {"None", "NaN"} THEN ""
    ELSE IF v = "#36" THEN "36"
    ELSE IF v = "#36.0" THEN "36.0"
    ELSE v

ToCsv(rows) ==
    [i \in DOMAIN rows |->
        [rows[i] EXCEPT !.home = CellText(@), !.away = CellText(@),
                        !.home_team_full = CellText(@),
                        !.away_team_full = CellText(@)]]

CellValue(column, text) ==
    LET numeric == column \subseteq (Numerals \cup {"36.0", ""}) /\ column # {""}
    IN  IF text = "" THEN "NaN"
        ELSE IF ~numeric THEN text
        ELSE IF column \subseteq Numerals THEN "#36"
        ELSE "#36.0"

FromCsv(rows) ==
    LET col(f) == {rows[i][f] : i \in DOMAIN rows}
    IN  [i \in DOMAIN rows |->
            [rows[i] EXCEPT
                !.home = CellValue(col("home"), @),
                !.away = CellValue(col("away"), @),
                !.home_team_full = CellValue(col("home_team_full"), @),
                !.away_team_full = CellValue(col("away_team_full"), @)]]

\* save_game_history: nothing is written for an empty history
SaveGameHistory(file, rows) ==
    IF rows # <<>> THEN [exists |-> TRUE, rows |-> ToCsv(rows)] ELSE file

\* load_game_history
LoadGameHistory(file) == IF file.exists THEN FromCsv(file.rows) ELSE <<>>

\* the file a session that added one game left behind
PriorCsv ==
    SaveGameHistory(NoFile, << GameResult(AppInitialRatings, AppTeamMapping, DefaultK, DefaultHomeAdv,
                        -1, "36", "syd", 90, 85) >>)

CsvChoices == {NoFile, PriorCsv}

InitApp ==
    /\ heap = [r \in Refs |-> IF r = CallerRef THEN AppInitialRatings ELSE <<>>]
    /\ caller_value = AppInitialRatings
    /\ history = [e \in Eng |->
                     IF e = 1 THEN Passed(AppInitialRatings, AppInitialRatings)
                     ELSE NoHistory]
    /\ ratings_system =
           [e \in Eng |->
               IF e = 1
               THEN NewRatingSystem(1, CallerRef, AppTeamMapping,
                                    DefaultK, DefaultHomeAdv)
               ELSE NoEngine]
    /\ clock = 0
    /\ ret = Returned("__init__", "None")
    /\ \E file \in CsvChoices :
          /\ csv = file
          /\ session_history = LoadGameHistory(file)
    /\ last_scrape = "None"
    /\ fetch = "none"

\* list(team_mapping.keys())[:10], and None from a selectbox without options
TeamOptions ==
    IF DOMAIN ratings_system[1].team_mapping = {} THEN {"None"}
    ELSE DOMAIN ratings_system[1].team_mapping

\* the "Add Game" form
AddGame(home_team, away_team, home_score, away_score) ==
    /\ clock < MaxAppGames
    /\ home_team \in TeamOptions
    /\ away_team \in TeamOptions
    /\ PlayGameOn(1, home_team, away_team, home_score, away_score)
    /\ session_history' = Append(session_history, ret'.value)
    /\ csv' = SaveGameHistory(csv, session_history')
    /\ UNCHANGED <<caller_value, last_scrape, fetch>>

\* a reset that empties the session history and keeps the engine
Reset_SessionOnly ==
    /\ session_history' = <<>>
    /\ csv' = SaveGameHistory(csv, <<>>)
    /\ ret' = Returned("reset", "None")
    /\ UNCHANGED <<heap, ratings_system, history, clock, caller_value, last_scrape, fetch>>

\* the "Reset" button
Reset ==
    /\ heap' = [heap EXCEPT ![CallerRef] = caller_value, ![OwnRef(1)] = <<>>]
    /\ ratings_system' =
           [ratings_system EXCEPT
               ![1] = [ratings |-> IF caller_value # <<>> THEN CallerRef ELSE OwnRef(1),
                       team_mapping |-> NoMapping,
                       k |-> DefaultK, home_adv |-> DefaultHomeAdv,
                       game_history |-> <<>>]]
    /\ history' = [history EXCEPT ![1] = Passed(caller_value, caller_value)]
    /\ session_history' = <<>>
    /\ csv' = SaveGameHistory(csv, <<>>)
    /\ ret' = Returned("reset", "None")
    /\ UNCHANGED <<clock, caller_value, last_scrape, fetch>>

\* the check with the two scores compared crosswise
GameExists_ScoresCrossed(sess, game) ==
    \E i \in DOMAIN sess :
        /\ sess[i].home = game.home
        /\ sess[i].away = game.away
        /\ sess[i].home_score = game.away_score
        /\ sess[i].away_score = game.home_score

GameExists(sess, game) ==
    \E i \in DOMAIN sess :
        /\ sess[i].home = game.home
        /\ sess[i].away = game.away
        /\ sess[i].home_score = game.home_score
        /\ sess[i].away_score = game.away_score

\* the loop over new_games; st holds the dict, the engine's log, the session
\* history, the calls made, the clock and added_count
RECURSIVE ScrapeLoop(_, _, _)
ScrapeLoop(st, rs, games) ==
    IF games = <<>> THEN st
    ELSE LET game == Head(games)
             result == GameResult(st.d, rs.team_mapping, rs.k, rs.home_adv, st.clock,
                                  game.home, game.away,
                                  game.home_score, game.away_score)
             played ==
                 [d |-> UpdateRatings(st.d, rs.k, rs.home_adv, game.home, game.away,
                                      game.home_score, game.away_score),
                  log |-> Append(st.log, result),
                  sess |-> Append(st.sess, result),
                  hist |-> [st.hist EXCEPT
                               !.calls = @ + 1,
                               !.params_used =
                                   Append(@, [k |-> rs.k, home_adv |-> rs.home_adv])],
                  clock |-> st.clock + 1,
                  added |-> st.added + 1]
         IN  ScrapeLoop(IF GameExists(st.sess, game) THEN st ELSE played,
                        rs, Tail(games))

\* the "Scrape Latest Results" button, FlashScoreScraper.scrape included
Scrape(outcome, new_games) ==
    LET rs == ratings_system[1]
        st == ScrapeLoop([d |-> heap[rs.ratings], log |-> rs.game_history,
                          sess |-> session_history, hist |-> history[1],
                          clock |-> clock, added |-> 0],
                         rs, new_games)
    IN  /\ st.clock <= MaxAppGames
        /\ fetch' = outcome
        /\ heap' = [heap EXCEPT ![rs.ratings] = st.d]
        /\ ratings_system' = [ratings_system EXCEPT ![1].game_history = st.log]
        /\ history' = [history EXCEPT ![1] = st.hist]
        /\ session_history' = st.sess
        /\ clock' = st.clock
        /\ csv' = IF st.added > 0 THEN SaveGameHistory(csv, st.sess) ELSE csv
        /\ last_scrape' = IF st.added > 0 THEN st.clock ELSE last_scrape
        /\ ret' = Called("scrape", new_games, st.added)
        /\ UNCHANGED caller_value

ScrapeFetched(new_games) == Scrape("ok", new_games)

ScrapeFailed == Scrape("failed", FallbackData)

\* the selections tried in the form: one team of the mapping on each side, and
\* the None of a selectbox without options
AddGameHome == {"36", "None"}

AddGameAway == {"syd", "None"}

NextApp ==
    \/ \E home_team \in AddGameHome, away_team \in AddGameAway, s \in AppScoreLines :
          AddGame(home_team, away_team, s[1], s[2])
    \/ Reset
    \/ \E new_games \in Batches : ScrapeFetched(new_games)
    \/ ScrapeFailed
    \/ \E k_value \in KValues : SetK(1, k_value)
    \/ \E home_adv \in HomeAdvValues : SetHomeAdv(1, home_adv)

SpecApp == InitApp /\ [][NextApp]_vars

---------------------------------------------------------------------------
(* The engine under any parameter values: k and home_adv are stored as given,
   with no range check *)

MaxParamGames == 1

\* k in hundredths: negative, zero, the default, the slider's maximum; a step of
\* home_adv times any of them is more than the thousandth ratings are rounded to
AcceptedK == {-5, 0, 5, 20}

\* home_adv in tenths
HomeAdvGrid == {0, 22, 23, 50}

ParamsPlayGame(home, away, home_score, away_score) ==
    /\ Len(ratings_system[1].game_history) < MaxParamGames
    /\ PlayGameOn(1, home, away, home_score, away_score)
    /\ UNCHANGED <<caller_value, appVars>>

NextParams ==
    \/ \E home \in PlayTeams, away \in PlayTeams, s \in ScoreLines :
          ParamsPlayGame(home, away, s[1], s[2])
    \/ \E k_value \in AcceptedK : SetK(1, k_value)
    \/ \E home_adv \in HomeAdvGrid : SetHomeAdv(1, home_adv)

SpecParams == Init /\ [][NextParams]_vars

---------------------------------------------------------------------------
(* Vocabulary of the properties *)

RECURSIVE SumRatings(_)
SumRatings(d) == IF d = <<>> THEN 0 ELSE d[1].rating + SumRatings(Tail(d))

Abs(n) == IF n < 0 THEN -n ELSE n

\* d is k * x (k in hundredths) to the nearest thousandth
IsProduct(d, kv, x) == 2 * Abs(100 * d - kv * x) <= 100

Log(e) == ratings_system[e].game_history

\* the step is a recordGame call on engine e: its log grew by one record
Recorded(e) == Len(Log(e)') = Len(Log(e)) + 1

Newest(e) == Log(e)'[Len(Log(e)')]

\* the rating dict of engine e after the step
RatingsAfter(e) == heap'[ratings_system'[e].ratings]

\* the surprise of record g against ratings rh, ra under home advantage ha
Surprise(g, rh, ra, ha) == (g.home_score - g.away_score) * 1000 - (rh + ha * 100 - ra)

KeysOf(d) == {d[i].team : i \in DOMAIN d}

\* equality of two rating maps, as Python compares dicts
SameMap(d1, d2) ==
    /\ KeysOf(d1) = KeysOf(d2)
    /\ \A t \in KeysOf(d1) : DictGet(d1, t, 0) = DictGet(d2, t, 0)

---------------------------------------------------------------------------
(* C1 *)

\* C1 (as claimed): after any sequence of recordGame calls, self-play included,
\* the sum of all ratings in the map equals the sum of the initial ratings.
C1_ZeroSum == SumRatings(RatingsOf(1)) = SumRatings(history[1].initial_ratings)

---------------------------------------------------------------------------
(* C2 *)

\* C2 (as claimed): every record of the log, self-play included, has
\* homeRatingAfter = homeRatingBefore + ratingDelta and
\* awayRatingAfter = awayRatingBefore - ratingDelta.
C2_RecordTransfer ==
    \A i \in DOMAIN Log(1) :
        LET g == Log(1)[i]
        IN  /\ g.home_rating_after = g.home_rating_before + g.delta_rating
            /\ g.away_rating_after = g.away_rating_before - g.delta_rating

---------------------------------------------------------------------------
(* C3 *)

C3_Rule ==
    Recorded(1) =>
        LET g == Newest(1)
            rh == DictGet(RatingsOf(1), g.home, 0)
            ra == DictGet(RatingsOf(1), g.away, 0)
            d == DictGet(RatingsAfter(1), g.home, 0) - rh
        IN  g.home # g.away =>
                /\ Has(RatingsAfter(1), g.home)
                /\ Has(RatingsAfter(1), g.away)
                /\ IsProduct(d, ratings_system[1].k,
                             Surprise(g, rh, ra, ratings_system[1].home_adv))
                /\ DictGet(RatingsAfter(1), g.away, 0) = ra - d

IsGame(g, home, away, home_score, away_score) ==
    /\ g.home = home
    /\ g.away = away
    /\ g.home_score = home_score
    /\ g.away_score = away_score

DefaultParameters == ratings_system[1].k = 5 /\ ratings_system[1].home_adv = 22

C3_ScenarioA ==
    ( /\ Recorded(1)
      /\ RatingsOf(1) = <<>>
      /\ DefaultParameters
      /\ IsGame(Newest(1), "A", "B", 90, 85) )
    => /\ DictGet(RatingsAfter(1), "A", 0) = 140
       /\ DictGet(RatingsAfter(1), "B", 0) = -140

C3_ScenarioB ==
    ( /\ Recorded(1)
      /\ KeysOf(RatingsOf(1)) = {"A", "B"}
      /\ DictGet(RatingsOf(1), "A", 0) = 140
      /\ DictGet(RatingsOf(1), "B", 0) = -140
      /\ DefaultParameters
      /\ IsGame(Newest(1), "B", "A", 80, 100) )
    => /\ DictGet(RatingsAfter(1), "B", 0) = -1236
       /\ DictGet(RatingsAfter(1), "A", 0) = 1236

\* C3: a recordGame(h, a, hs, as) call with h # a sets rating[h] = rh + d and
\* rating[a] = ra - d with d = kFactor * ((hs - as) - (rh + homeAdvantage - ra)),
\* rh and ra the ratings before the call (0.0 if absent); from empty ratings with
\* the default parameters, A-B 90-85 gives A = 0.14, B = -0.14 and then
\* B-A 80-100 gives B = -1.236, A = 1.236.
C3_UpdateRule == [][C3_Rule /\ C3_ScenarioA /\ C3_ScenarioB]_vars

\* scenario A then scenario B have been played from empty ratings
C3_Witness ==
    /\ history[1].initial_ratings = <<>>
    /\ Len(Log(1)) = 2
    /\ IsGame(Log(1)[1], "A", "B", 90, 85)
    /\ IsGame(Log(1)[2], "B", "A", 80, 100)
    /\ \A i \in 1..2 : history[1].params_used[i] = [k |-> 5, home_adv |-> 22]
    /\ DictGet(RatingsOf(1), "A", 0) = 1236
    /\ DictGet(RatingsOf(1), "B", 0) = -1236

---------------------------------------------------------------------------
(* C4 *)

C4_Step ==
    \/ Log(1)' = Log(1)
    \/ /\ Recorded(1)
       /\ SubSeq(Log(1)', 1, Len(Log(1))) = Log(1)

\* C4: the log is append-only: its length is the number of recordGame calls made,
\* and every operation (recordGame, a parameter change, standings, ratingOf,
\* predict) either leaves it as it is or appends one record after the others,
\* which keep their positions and field values.
C4_AppendOnly ==
    /\ [](Len(Log(1)) = history[1].calls)
    /\ [][C4_Step]_vars

\* two records are in the log and a read has run since
C4_Witness ==
    /\ Len(Log(1)) = 2
    /\ history[1].calls = 2
    /\ ret.op \in {"get_standings", "get_team_rating", "predict_game"}

---------------------------------------------------------------------------
(* C5 *)

C5_Frame ==
    Recorded(1) =>
        LET g == Newest(1)
        IN  /\ \A t \in Teams \ {g.home, g.away} :
                  /\ Has(RatingsAfter(1), t) = Has(RatingsOf(1), t)
                  /\ DictGet(RatingsAfter(1), t, 0) = DictGet(RatingsOf(1), t, 0)
            /\ KeysOf(RatingsAfter(1)) \ {g.home, g.away}
                   = KeysOf(RatingsOf(1)) \ {g.home, g.away}
            /\ ratings_system'[1].k = ratings_system[1].k
            /\ ratings_system'[1].home_adv = ratings_system[1].home_adv
            /\ ratings_system'[1].team_mapping = ratings_system[1].team_mapping
            /\ ratings_system'[1].ratings = ratings_system[1].ratings
            /\ Log(1)' = Append(Log(1), g)

\* C5: a recordGame(h, a, ...) call leaves the rating of every participant other
\* than h and a as it was, adds or removes no id other than h and a, leaves
\* kFactor, homeAdvantage and the name mapping as they were, and changes the log
\* only by the one appended record.
C5_RecordGameFrame == [][C5_Frame]_vars

\* a game between A and B has been recorded while C holds its initial rating
C5_Witness ==
    /\ Len(Log(1)) >= 1
    /\ Log(1)[1].home # Log(1)[1].away
    /\ Has(history[1].initial_ratings, "C")
    /\ DictGet(RatingsOf(1), "C", 0) = -500
    /\ DictGet(RatingsOf(1), "A", 0) # 1500

---------------------------------------------------------------------------
(* C6 *)

\* a new engine built from `initial` with parameters kv and ha, fed each record
\* of `log` in order through play_game with the record's stored ids and scores
RECURSIVE Replay(_, _, _, _)
Replay(initial, log, kv, ha) ==
    IF log = <<>> THEN initial
    ELSE LET g == log[Len(log)]
         IN  UpdateRatings(Replay(initial, SubSeq(log, 1, Len(log) - 1), kv, ha),
                           kv, ha, g.home, g.away, g.home_score, g.away_score)

\* C6 (as claimed): whatever parameter changes were interleaved with the games,
\* a new engine built from the same initialRatings (with whichever one pair of
\* parameter values serves best) that replays the log ends with the original
\* engine's rating map.
C6_ReplayAnyParameters ==
    \E kv \in KValues, ha \in HomeAdvValues :
        SameMap(Replay(history[1].initial_ratings, Log(1), kv, ha), RatingsOf(1))

SameParameters ==
    \A i \in DOMAIN history[1].params_used :
        history[1].params_used[i] = history[1].params_used[1]

\* C6 (amended): when every record of the log was produced under one pair
\* (kFactor, homeAdvantage), a new engine built with that pair from a mapping
\* holding the initialRatings as they were at construction, replaying the log in
\* order with each record's stored ids and scores, ends with a rating map equal to
\* the original engine's.
C6_ReplayEquivalence ==
    (Log(1) # <<>> /\ SameParameters) =>
        SameMap(Replay(history[1].initial_ratings, Log(1),
                       history[1].params_used[1].k,
                       history[1].params_used[1].home_adv),
                RatingsOf(1))

\* two games recorded under one non-default parameter pair, from non-empty
\* initial ratings, the second between other sides than the first
C6_Witness ==
    /\ Len(Log(1)) = 2
    /\ SameParameters
    /\ history[1].params_used[1] = [k |-> 20, home_adv |-> 0]
    /\ history[1].initial_ratings # <<>>
    /\ Log(1)[1].home # Log(1)[2].home

---------------------------------------------------------------------------
(* C10 *)

ParameterChanged ==
    \/ ratings_system'[1].k # ratings_system[1].k
    \/ ratings_system'[1].home_adv # ratings_system[1].home_adv

C10_ChangeFrame ==
    ParameterChanged => /\ heap' = heap
                        /\ Log(1)' = Log(1)

\* the record produced by this step was computed with the parameters in force
C10_NewRecord ==
    Recorded(1) =>
        LET g == Newest(1)
            rs == ratings_system[1]
        IN  /\ g.expected_mov
                   = g.home_rating_before + rs.home_adv * 100 - g.away_rating_before
            /\ IsProduct(g.delta_rating, rs.k,
                         g.actual_mov * 1000 - g.expected_mov)

\* every record still shows the parameters that were in force at its call
C10_Records ==
    \A i \in DOMAIN Log(1) :
        LET g == Log(1)[i]
            p == history[1].params_used[i]
        IN  /\ g.expected_mov
                   = g.home_rating_before + p.home_adv * 100 - g.away_rating_before
            /\ IsProduct(g.delta_rating, p.k, g.actual_mov * 1000 - g.expected_mov)

\* C10: a change of kFactor or homeAdvantage leaves the rating map and every
\* existing record unchanged; a record's expectedMarginOfVictory and ratingDelta
\* are computed from, and keep showing, the parameter values in force when its
\* recordGame call ran.
C10_ParameterChange ==
    /\ []C10_Records
    /\ [][C10_ChangeFrame /\ C10_NewRecord]_vars

\* a game recorded under (0.05, 2.2), both parameters changed, a game recorded
\* under (0.2, 0.0), and a parameter changed again
C10_Witness ==
    /\ Len(Log(1)) = 2
    /\ history[1].params_used[1] = [k |-> 5, home_adv |-> 22]
    /\ history[1].params_used[2] = [k |-> 20, home_adv |-> 0]
    /\ ratings_system[1].k = 5
    /\ Log(1)[1].expected_mov # Log(1)[2].expected_mov

---------------------------------------------------------------------------
(* C7 *)

Inputs(log) ==
    [i \in DOMAIN log |->
        <<log[i].home, log[i].away, log[i].home_score, log[i].away_score>>]

Untimed(log) == [i \in DOMAIN log |-> [log[i] EXCEPT !.timestamp = 0]]

\* C7 (as claimed): two engines built from the same caller-held initialRatings
\* (the caller having put the same entries in it both times) with the same
\* kFactor and homeAdvantage, and fed the same sequence of games, have equal
\* rating maps and equal logs up to the timestamps.
C7_Determinism ==
    ( /\ Constructed(1)
      /\ Constructed(2)
      /\ history[1].given = history[2].given
      /\ ratings_system[1].k = ratings_system[2].k
      /\ ratings_system[1].home_adv = ratings_system[2].home_adv
      /\ Inputs(Log(1)) = Inputs(Log(2)) )
    => /\ SameMap(RatingsOf(1), RatingsOf(2))
       /\ Untimed(Log(1)) = Untimed(Log(2))

---------------------------------------------------------------------------
(* C8 *)

C8_CallerWriteFrame ==
    caller_value' # caller_value =>
        \A e \in Eng : Constructed(e) => RatingsAfter(e) = RatingsOf(e)

\* C8 (as claimed): the mapping the caller passed to the constructor always holds
\* what the caller put in it, whatever recordGame calls were made, and a write of
\* the caller to that mapping changes no engine's ratings.
C8_Ownership ==
    /\ [](heap[CallerRef] = caller_value)
    /\ [][C8_CallerWriteFrame]_vars

---------------------------------------------------------------------------
(* C9 *)

C9_FailedScrape ==
    (ret'.op = "scrape" /\ fetch' = "failed") =>
        /\ RatingsAfter(1) = RatingsOf(1)
        /\ Log(1)' = Log(1)
        /\ session_history' = session_history

\* C9 (as claimed): a run of the scrape handler whose request fails leaves the
\* engine's rating map, the engine's log and the session game history as they were.
C9_FailedFetchUntouched == [][C9_FailedScrape]_vars

---------------------------------------------------------------------------
(* C11 *)

ReadOps == {"get_standings", "get_team_rating", "predict_game"}

\* the step is a call of one of the three read operations
IsRead == ret' # ret /\ ret'.op \in ReadOps

C11_ReadStep ==
    /\ IsRead =>
          /\ RatingsAfter(1) = RatingsOf(1)
          /\ KeysOf(RatingsAfter(1)) = KeysOf(RatingsOf(1))
          /\ heap' = heap
          /\ Log(1)' = Log(1)
          /\ ratings_system'[1].k = ratings_system[1].k
          /\ ratings_system'[1].home_adv = ratings_system[1].home_adv
          /\ ratings_system' = ratings_system
    /\ (ret'.op \in ReadOps /\ ret'.op = ret.op /\ ret'.args = ret.args
            /\ heap' = heap /\ ratings_system' = ratings_system) =>
          ret'.value = ret.value

\* C11: standings, ratingOf and predict, called with any ids (ids never seen
\* included), leave the rating map (no entry is created), the log and both
\* parameters as they were, and the same read made again with no recordGame or
\* parameter change in between returns the same result.
C11_ReadsArePure == [][C11_ReadStep]_vars

\* after a recorded game, ratingOf was asked for an id the map does not hold
C11_Witness ==
    /\ Len(Log(1)) >= 1
    /\ ret.op = "get_team_rating"
    /\ \E t \in Teams : ret.args = <<t>> /\ ~Has(RatingsOf(1), t)

---------------------------------------------------------------------------
(* C12 *)

\* id t was in no initialRatings and in no recordGame call of engine e
NeverSeen(e, t) ==
    /\ t \notin KeysOf(history[e].initial_ratings)
    /\ \A i \in DOMAIN Log(e) : t \notin {Log(e)[i].home, Log(e)[i].away}

C12_RecordUnknown ==
    Recorded(1) =>
        LET g == Newest(1)
        IN  /\ ~Has(RatingsOf(1), g.home) => g.home_rating_before = 0
            /\ ~Has(RatingsOf(1), g.away) => g.away_rating_before = 0
            /\ {g.home, g.away} \subseteq KeysOf(RatingsAfter(1))
            /\ ret' = Returned("play_game", g)

C12_RatingOfUnknown ==
    \A t \in Teams :
        (ret.op = "get_team_rating" /\ ret.args = <<t>> /\ NeverSeen(1, t)) =>
            /\ ret.value = 0
            /\ ~Has(RatingsOf(1), t)

\* C12: recordGame with an id the rating map does not hold takes 0.0 as that
\* id's before-rating, returns the new record, and leaves the id as an entry of
\* the map; ratingOf returns 0.0 for every id that was in no initialRatings and
\* in no recordGame call.
C12_UnknownIds == [][C12_RecordUnknown]_vars /\ []C12_RatingOfUnknown

\* a game between two ids the map did not hold was recorded, and ratingOf was
\* then asked for a third id that was never seen
C12_Witness ==
    /\ history[1].initial_ratings = <<>>
    /\ Len(Log(1)) = 1
    /\ Log(1)[1].home = "A" /\ Log(1)[1].away = "B"
    /\ Log(1)[1].home_rating_before = 0 /\ Log(1)[1].away_rating_before = 0
    /\ KeysOf(RatingsOf(1)) = {"A", "B"}
    /\ ret = Called("get_team_rating", <<"C">>, 0)

---------------------------------------------------------------------------
(* C13 *)

C13_SelfPlayStep ==
    (Recorded(1) /\ Newest(1).home = Newest(1).away) =>
        LET x == Newest(1).home
        IN  DictGet(RatingsAfter(1), x, 0) = DictGet(RatingsOf(1), x, 0)

\* C13 (as claimed): recordGame(x, x, hs, as) leaves rating[x] equal to its value
\* before the call, for every engine state, every pair of scores and every
\* parameter values.
C13_SelfPlayNoNetEffect == [][C13_SelfPlayStep]_vars

---------------------------------------------------------------------------
(* C14 *)

\* the record recordGame would have made from the state before the step, with
\* the inputs of record g, had homeAdvantage been ha
UnderHomeAdv(g, ha) ==
    GameResult(RatingsOf(1), ratings_system[1].team_mapping, ratings_system[1].k,
               ha, g.timestamp, g.home, g.away, g.home_score, g.away_score)

\* against the record just made, a larger homeAdvantage gives a larger
\* expectedMoV and, when Strict(k), a smaller delta; a smaller one the reverse
Monotone(Strict(_)) ==
    Recorded(1) =>
        LET g == Newest(1)
            ha1 == ratings_system[1].home_adv
            kv == ratings_system[1].k
        IN  \A ha2 \in HomeAdvGrid :
                LET g2 == UnderHomeAdv(g, ha2)
                IN  /\ ha1 < ha2 =>
                          /\ g2.expected_mov > g.expected_mov
                          /\ Strict(kv) => g2.delta_rating < g.delta_rating
                    /\ ha2 < ha1 =>
                          /\ g2.expected_mov < g.expected_mov
                          /\ Strict(kv) => g2.delta_rating > g.delta_rating

AnyK(kv) == TRUE

PositiveK(kv) == kv > 0

C14_StepAnyK == Monotone(AnyK)

C14_StepPositiveK ==
    /\ Monotone(PositiveK)
    /\ Recorded(1) =>
          /\ Newest(1).expected_mov =
                Newest(1).home_rating_before + ratings_system[1].home_adv * 100
                    - Newest(1).away_rating_before
          /\ \A ha2 \in HomeAdvGrid :
                 /\ ratings_system[1].k = 0 =>
                        UnderHomeAdv(Newest(1), ha2).delta_rating = Newest(1).delta_rating
                 /\ (ratings_system[1].k < 0 /\ ratings_system[1].home_adv < ha2) =>
                        UnderHomeAdv(Newest(1), ha2).delta_rating > Newest(1).delta_rating

\* C14 (as claimed): for fixed ratings, scores and kFactor and HA1 < HA2, the
\* expectedMoV computed with HA2 is strictly greater and the delta computed with
\* HA2 strictly smaller than with HA1, for every kFactor the engine accepts.
C14_MonotoneAnyK == [][C14_StepAnyK]_vars

\* C14 (amended): for fixed ratings, scores and kFactor and HA1 < HA2, the
\* expectedMoV computed with HA2 is strictly greater than with HA1, and the
\* delta computed with HA2 is strictly smaller than with HA1 when kFactor > 0;
\* with kFactor = 0 both deltas are equal and with kFactor < 0 the delta grows.
C14_MonotonePositiveK == [][C14_StepPositiveK]_vars

\* a game was just recorded under a positive k and a home advantage that has
\* both a smaller and a larger value to compare with
C14_Witness ==
    /\ ret.op = "play_game"
    /\ Len(Log(1)) = 1
    /\ ratings_system[1].k = 5
    /\ ratings_system[1].home_adv = 22
    /\ Log(1)[1].home # Log(1)[1].away
    /\ Log(1)[1].delta_rating # 0

---------------------------------------------------------------------------
(* C15 *)

\* the ids that were in initialRatings or took part in a recordGame call
SeenIds(e) ==
    KeysOf(history[e].initial_ratings)
        \cup UNION {{Log(e)[i].home, Log(e)[i].away} : i \in DOMAIN Log(e)}

\* the standings entry of id t: its mapped name, or the raw id, and its rating
EntryOf(e, t) ==
    LET tm == ratings_system[e].team_mapping
    IN  <<IF t \in DOMAIN tm THEN tm[t] ELSE t, DictGet(RatingsOf(e), t, 0)>>

\* C15: standings returns exactly one entry per id of the rating map (the ids of
\* initialRatings and of the recordGame calls, no others), ratings non-increasing
\* from first to last, each entry with the id's mapped name when the name mapping
\* has one and the raw id otherwise.
C15_Standings ==
    ret.op = "get_standings" =>
        LET v == ret.value
        IN  /\ KeysOf(RatingsOf(1)) = SeenIds(1)
            /\ Len(v) = Cardinality(SeenIds(1))
            /\ \A t \in SeenIds(1) :
                   Cardinality({i \in DOMAIN v : v[i] = EntryOf(1, t)})
                       = Cardinality({u \in SeenIds(1) : EntryOf(1, u) = EntryOf(1, t)})
            /\ \A i \in DOMAIN v : \E t \in SeenIds(1) : v[i] = EntryOf(1, t)
            /\ \A i \in DOMAIN v : \A j \in DOMAIN v : i < j => v[i][2] >= v[j][2]

\* standings of three ids with different ratings, two named by the mapping and
\* one listed under its raw id
C15_Witness ==
    /\ ret.op = "get_standings"
    /\ Len(ret.value) = 3
    /\ ret.value[1][2] > ret.value[2][2]
    /\ ret.value[2][2] > ret.value[3][2]
    /\ {ret.value[i][1] : i \in 1..3} = {"Alpha", "Bravo", "C"}

---------------------------------------------------------------------------
(* C16 *)

\* the record a recordGame call made now, with these ids and scores, would return
RecordNow(home, away, home_score, away_score) ==
    GameResult(RatingsOf(1), ratings_system[1].team_mapping, ratings_system[1].k,
               ratings_system[1].home_adv, clock, home, away, home_score, away_score)

Agrees(p, g) ==
    /\ p.expected_mov = g.expected_mov
    /\ p.home_rating = g.home_rating_before
    /\ p.away_rating = g.away_rating_before

C16_NextRecord ==
    ret.op = "predict_game" =>
        \A s \in ScoreLines :
            Agrees(ret.value, RecordNow(ret.args[1], ret.args[2], s[1], s[2]))

C16_RecordAfterPredict ==
    (/\ ret.op = "predict_game"
     /\ Recorded(1)
     /\ ret.args = <<Newest(1).home, Newest(1).away>>
     /\ ret' = Returned("play_game", Newest(1))) =>
        Agrees(ret.value, Newest(1))

\* C16: the expectedMoV, homeRating and awayRating returned by predict(h, a)
\* equal the expectedMarginOfVictory and the two before-ratings of the record made
\* by a recordGame(h, a, hs, as) called right after it with the parameters
\* unchanged, for all ids, known or not, and all scores.
C16_PredictAgrees == []C16_NextRecord /\ [][C16_RecordAfterPredict]_vars

\* after a recorded game, a prediction between an id with a moved rating and an
\* id the map does not hold, with room for the game to be recorded next
C16_Witness ==
    /\ ret.op = "predict_game"
    /\ Len(Log(1)) = 1
    /\ Has(RatingsOf(1), ret.args[1])
    /\ ~Has(RatingsOf(1), ret.args[2])
    /\ ret.value.home_rating # 0
    /\ ret.value.expected_mov # ret.value.home_rating

---------------------------------------------------------------------------
(* C17 *)

\* the rows a session started on this file would read
Persisted(file) == IF file.exists THEN file.rows ELSE <<>>

C17_MutationStep ==
    session_history' # session_history =>
        /\ Persisted(csv') = ToCsv(session_history')
        /\ ret'.op = "reset" =>
              /\ Persisted(csv') = <<>>
              /\ LoadGameHistory(csv') = <<>>

\* C17 (as claimed): after every handler that changes the session game history
\* (Add Game, a scrape that adds games, Reset) the persisted history equals the
\* session history; after Reset the persisted history is empty, so a session
\* started afterwards loads an empty history.
C17_PersistedTracksSession == [][C17_MutationStep]_vars

---------------------------------------------------------------------------
(* C18 *)

SameGame(a, b) ==
    /\ a.home = b.home
    /\ a.away = b.away
    /\ a.home_score = b.home_score
    /\ a.away_score = b.away_score

\* the positions of the batch whose game is neither in the session history nor
\* earlier in the batch
FreshIn(batch, sess) ==
    {i \in DOMAIN batch :
        /\ \A n \in DOMAIN sess : ~SameGame(sess[n], batch[i])
        /\ \A j \in 1..(i - 1) : ~SameGame(batch[j], batch[i])}

\* the records the step appended to the engine's log
Appended == SubSeq(Log(1)', Len(Log(1)) + 1, Len(Log(1)'))

C18_ScrapeStep ==
    ret'.op = "scrape" =>
        LET batch == ret'.args
            fresh == FreshIn(batch, session_history)
        IN  /\ Len(Log(1)') = Len(Log(1)) + Cardinality(fresh)
            /\ history'[1].calls = history[1].calls + Cardinality(fresh)
            /\ ret'.value = Cardinality(fresh)
            /\ SubSeq(Log(1)', 1, Len(Log(1))) = Log(1)
            /\ session_history' = session_history \o Appended
            /\ \A i \in fresh : \E n \in DOMAIN Appended : SameGame(Appended[n], batch[i])
            /\ \A n \in DOMAIN Appended : \E i \in fresh : SameGame(Appended[n], batch[i])
            /\ fresh = {} => RatingsAfter(1) = RatingsOf(1)

C18_SecondRun ==
    (ret.op = "scrape" /\ ret'.op = "scrape" /\ ret'.args = ret.args) =>
        /\ ret'.value = 0
        /\ history'[1].calls = history[1].calls
        /\ RatingsAfter(1) = RatingsOf(1)
        /\ heap' = heap
        /\ Log(1)' = Log(1)
        /\ session_history' = session_history

\* C18: the scrape handler passes a scraped game to play_game only if no entry
\* of the session history has the same home, away, home_score and away_score,
\* the games it added earlier in the same batch included; so a second run of the
\* handler on the same supplier output calls play_game zero times and leaves the
\* rating map, the engine's log and the session history as they were.
C18_ScrapeIdempotent == [][C18_ScrapeStep /\ C18_SecondRun]_vars

\* the handler ran on a batch holding one game twice, found it in the session
\* history, where an earlier run put it, and added nothing
C18_Witness ==
    /\ ret.op = "scrape"
    /\ ret.value = 0
    /\ Len(ret.args) = 2
    /\ SameGame(ret.args[1], ret.args[2])
    /\ fetch = "ok"
    /\ Len(Log(1)) = 1
    /\ session_history = Log(1)
    /\ SameGame(Log(1)[1], ret.args[1])

---------------------------------------------------------------------------
(* C19 *)

\* log is the tail of sess
IsSuffix(log, sess) ==
    /\ Len(log) <= Len(sess)
    /\ SubSeq(sess, Len(sess) - Len(log) + 1, Len(sess)) = log

C19_Suffix == IsSuffix(Log(1), session_history)

C19_ResetStep ==
    ret'.op = "reset" =>
        /\ Log(1)' = <<>>
        /\ session_history' = <<>>
        /\ RatingsAfter(1) = AppInitialRatings
        /\ SameMap(RatingsAfter(1), caller_value)

\* C19: in every state of a session, started on any persisted history and taken
\* through any Add Game, scrape and Reset handlers, the engine's game_history is
\* a suffix of the session game history: the engine's records are in the session
\* history in the same order, after the records loaded at startup; after Reset
\* both are empty and the engine's ratings are the loaded initial ratings.
C19_EngineLogIsSuffix == []C19_Suffix /\ [][C19_ResetStep]_vars

\* a session started on a file with one record, to which Add Game and a scrape
\* each added a game
C19_Witness ==
    /\ Len(session_history) = 3
    /\ Len(Log(1)) = 2
    /\ session_history[1].timestamp = -1
    /\ session_history[2] = Log(1)[1]
    /\ session_history[3] = Log(1)[2]
    /\ fetch # "none"
    /\ Log(1)[1].home # Log(1)[2].home

====
